---- MODULE Spec2Model ----
(***************************************************************************)
(* Model of zato.cli.quickstart.Quickstart.execute and of the Cluster and  *)
(* Server tables of zato.common.odb.model it writes to.                    *)
(*                                                                         *)
(* A run of execute is a sequence of statements; the position of a run is  *)
(* the label of the statement it is about to execute, named after the      *)
(* source line (L83 is os.mkdir(ca_dir)).  The filesystem below a run's    *)
(* target directory is a function from paths to contents, the database is  *)
(* the set of committed Cluster and Server rows plus the two id sequences, *)
(* and each run has a session holding its uncommitted inserts.             *)
(***************************************************************************)
EXTENDS Integers, Sequences, FiniteSets, TLC

\* Bounds of the model.
MaxPre == 2       \* pre-existing Cluster rows in the store
MaxSuffix == 3    \* highest numeric suffix of a pre-existing quickstart name

Runs == {"r1", "r2", "r3"}
Targets == {"t1", "t2", "t3"}

-----------------------------------------------------------------------------
(* Names.  A name is a sequence of tokens: the literal prefixes are one    *)
(* token each, every other character is a token of its own.                *)

QSPrefix == "ZatoQuickstartCluster"
QSServerPrefix == "ZatoQuickstartServer-(cluster-"
DigitChars == <<"0", "1", "2", "3", "4", "5", "6", "7", "8", "9">>
Digits == {DigitChars[i] : i \in 1..10}

DigitVal(ch) == (CHOOSE i \in 1..10 : DigitChars[i] = ch) - 1

\* '{next_id}'.format(next_id=n): the decimal numeral of n.
RECURSIVE FormatNat(_)
FormatNat(n) ==
    IF n < 10 THEN <<DigitChars[n + 1]>>
    ELSE FormatNat(n \div 10) \o <<DigitChars[(n % 10) + 1]>>

FormatInt(n) == IF n < 0 THEN <<"-">> \o FormatNat(0 - n) ELSE FormatNat(n)

\* int(s) for a digit string; the caller has checked s is one.
RECURSIVE DigitsToNat(_)
DigitsToNat(s) ==
    IF Len(s) = 0 THEN 0
    ELSE 10 * DigitsToNat(SubSeq(s, 1, Len(s) - 1)) + DigitVal(s[Len(s)])

IsDigitString(s) == Len(s) >= 1 /\ \A i \in 1..Len(s) : s[i] \in Digits

\* int(s): ok is FALSE where Python raises ValueError.
ParseInt(s) ==
    IF IsDigitString(s) THEN [ok |-> TRUE, val |-> DigitsToNat(s)]
    ELSE IF Len(s) >= 2 /\ s[1] = "-" /\ IsDigitString(Tail(s))
         THEN [ok |-> TRUE, val |-> 0 - DigitsToNat(Tail(s))]
         ELSE [ok |-> FALSE, val |-> 0]

\* s.split(sep): the parts of s between the occurrences of sep.
RECURSIVE Split(_, _)
Split(s, sep) ==
    IF \A i \in 1..Len(s) : s[i] # sep THEN <<s>>
    ELSE LET i == CHOOSE k \in 1..Len(s) :
                      s[k] = sep /\ \A j \in 1..(k - 1) : s[j] # sep
         IN <<SubSeq(s, 1, i - 1)>> \o Split(SubSeq(s, i + 1, Len(s)), sep)

\* Cluster.name.like("ZatoQuickstartCluster-%")
LikeAny(name) == Len(name) >= 1
Like(name) == Len(name) >= 2 /\ name[1] = QSPrefix /\ name[2] = "-"

\* 'ZatoQuickstartCluster-#{next_id}'.format(next_id=next_id)
ClusterName(n) == <<QSPrefix, "-", "#">> \o FormatInt(n)

\* 'ZatoQuickstartServer-(cluster-#{next_id})'.format(next_id=next_id)
ServerNamePrevious(n) == <<QSServerPrefix, "#">> \o FormatInt(n - 1) \o <<")">>
ServerName(n) == <<QSServerPrefix, "#">> \o FormatInt(n) \o <<")">>

\* query.order_by(Cluster.id.desc()): the rows as a list, highest id first.
\* The numeric suffix of a name, -1 where it has none.
SuffixKey(name) ==
    LET parts == Split(name, "#")
    IN IF Len(parts) = 2 /\ ParseInt(parts[2]).ok THEN ParseInt(parts[2]).val ELSE -1

RECURSIVE OrderBySuffixDesc(_)
OrderBySuffixDesc(rows) ==
    IF rows = {} THEN <<>>
    ELSE LET top == CHOOSE c \in rows :
                        \A d \in rows : \/ SuffixKey(d.name) < SuffixKey(c.name)
                                        \/ /\ SuffixKey(d.name) = SuffixKey(c.name)
                                           /\ d.id <= c.id
         IN <<top>> \o OrderBySuffixDesc(rows \ {top})

RECURSIVE OrderByIdDesc(_)
OrderByIdDesc(rows) ==
    IF rows = {} THEN <<>>
    ELSE LET top == CHOOSE c \in rows : \A d \in rows : d.id <= c.id
         IN <<top>> \o OrderByIdDesc(rows \ {top})

NextIdNoIncrement(clusters) ==
    LET found == OrderByIdDesc({c \in clusters : Like(c.name)})
    IN IF Len(found) = 0 THEN [err |-> FALSE, next_id |-> 1]
       ELSE LET parts == Split(found[1].name, "#")
            IN IF Len(parts) # 2 THEN [err |-> TRUE, next_id |-> 1]
               ELSE LET id == ParseInt(parts[2])
                    IN IF ~id.ok THEN [err |-> TRUE, next_id |-> 1]
                       ELSE [err |-> FALSE, next_id |-> id.val]

\* Lines 136-148: next_id from the committed Cluster rows.  err is TRUE
\* where the tuple unpacking of split("#") or int() raises ValueError.
NextId(clusters) ==
    LET found == OrderByIdDesc({c \in clusters : Like(c.name)})
    IN IF Len(found) = 0 THEN [err |-> FALSE, next_id |-> 1]
       ELSE LET parts == Split(found[1].name, "#")
            IN IF Len(parts) # 2 THEN [err |-> TRUE, next_id |-> 1]
               ELSE LET id == ParseInt(parts[2])
                    IN IF ~id.ok THEN [err |-> TRUE, next_id |-> 1]
                       ELSE [err |-> FALSE, next_id |-> id.val + 1]

-----------------------------------------------------------------------------
(* Paths below the target directory, as sequences of components.           *)

ca_dir == <<"ca">>
lb_dir == <<"load-balancer">>
server_dir == <<"server">>
zato_admin_dir == <<"zato-admin">>
security_server_dir == <<"security-server">>

RoleDirs == {ca_dir, lb_dir, server_dir, zato_admin_dir, security_server_dir}

ca_material == ca_dir \o <<"ca-material">>
ca_cert == ca_material \o <<"ca-cert.pem">>
lb_config == lb_dir \o <<"config">>
server_config == server_dir \o <<"config">>
server_repo == server_config \o <<"repo">>

IssueRoles == {"lb", "server", "zato_admin", "security_server"}

\* The keys of the format_args a role's issuance returns that execute reads.
ArtifactKeys(role) ==
    IF role = "server" THEN {"priv_key_name", "pub_key_name", "cert_name"}
    ELSE {"priv_key_name", "cert_name"}

\* The path format_args[key] names, below ca_dir.
FormatArg(role, key) == ca_dir \o <<role, key>>

\* Where a component's own configuration is installed.
ConfigFile(dir) == dir \o <<"zato-config">>

Sources ==
    {ca_cert} \cup {FormatArg(role, k) : role \in IssueRoles,
                    k \in {"priv_key_name", "pub_key_name", "cert_name"}}

-----------------------------------------------------------------------------
(* The statements of execute, in source order.  The orders before Order   *)
(* are the reorderings the properties below are shown to exclude.          *)

OrderPingLate ==
    <<"L60", "L80", "L83", "L84", "L63", "L87", "L88", "L89", "L90", "L93",
      "L96", "L97", "L98", "L101", "L102", "L105", "L106", "L107", "L110",
      "L116", "L118", "L119", "L120", "L121", "L123", "L126", "L127",
      "L130", "L131", "L132", "L137", "L142", "L150", "L160_cluster",
      "L160_server", "L160_commit", "L163">>

OrderPrepareLate ==
    <<"L60", "L63", "L80", "L83", "L84", "L87", "L88", "L89", "L90", "L93",
      "L96", "L97", "L98", "L101", "L102", "L105", "L106", "L107", "L110",
      "L118", "L119", "L120", "L121", "L116", "L123", "L126", "L127",
      "L130", "L131", "L132", "L137", "L142", "L150", "L160_cluster",
      "L160_server", "L160_commit", "L163">>

OrderIssueFirst ==
    <<"L60", "L63", "L80", "L83", "L87", "L84", "L88", "L89", "L90", "L93",
      "L96", "L97", "L98", "L101", "L102", "L105", "L106", "L107", "L110",
      "L116", "L118", "L119", "L120", "L121", "L123", "L126", "L127",
      "L130", "L131", "L132", "L137", "L142", "L150", "L160_cluster",
      "L160_server", "L160_commit", "L163">>

OrderRegistrarEarly ==
    <<"L60", "L63", "L80", "L83", "L84", "L87", "L88", "L89", "L90", "L93",
      "L96", "L97", "L98", "L101", "L102", "L105", "L106", "L107", "L110",
      "L116", "L118", "L119", "L120", "L121", "L123", "L137", "L142", "L150",
      "L160_cluster", "L160_server", "L160_commit", "L126", "L127", "L130",
      "L131", "L132", "L163">>

OrderLbCopyFirst ==
    <<"L60", "L63", "L80", "L83", "L84", "L87", "L88", "L89", "L90", "L93",
      "L96", "L97", "L98", "L101", "L105", "L102", "L106", "L107", "L110",
      "L116", "L118", "L119", "L120", "L121", "L123", "L126", "L127",
      "L130", "L131", "L132", "L137", "L142", "L150", "L160_cluster",
      "L160_server", "L160_commit", "L163">>

OrderNoAdmin ==
    <<"L60", "L63", "L80", "L83", "L84", "L87", "L88", "L89", "L90", "L93",
      "L96", "L97", "L98", "L101", "L102", "L105", "L106", "L107", "L110",
      "L116", "L118", "L119", "L120", "L121", "L123", "L137", "L142", "L150",
      "L160_cluster", "L160_server", "L160_commit", "L163">>

OrderAdminFirst ==
    <<"L60", "L63", "L80", "L83", "L84", "L87", "L88", "L89", "L90", "L93",
      "L96", "L97", "L98", "L126", "L127", "L130", "L131", "L132", "L101",
      "L102", "L105", "L106", "L107", "L110", "L116", "L118", "L119",
      "L120", "L121", "L123", "L137", "L142", "L150", "L160_cluster",
      "L160_server", "L160_commit", "L163">>

Order ==
    <<"L60", "L63", "L80", "L83", "L84", "L87", "L88", "L89", "L90", "L93",
      "L96", "L97", "L98", "L101", "L102", "L105", "L106", "L107", "L110",
      "L116", "L118", "L119", "L120", "L121", "L123", "L126", "L127",
      "L130", "L131", "L132", "L137", "L142", "L150", "L160_cluster",
      "L160_server", "L160_commit", "L163">>

Labels == {Order[i] : i \in 1..Len(Order)}

IndexOf(p) == CHOOSE i \in 1..Len(Order) : Order[i] = p

\* The position after statement p has completed.
NextPc(p) == IF IndexOf(p) = Len(Order) THEN "ok" ELSE Order[IndexOf(p) + 1]

\* What the statement at each label does.
Stmt(p) ==
    CASE p = "L60"  -> [op |-> "get_engine"]
      [] p = "L63"  -> [op |-> "ping"]
      [] p = "L80"  -> [op |-> "create_odb"]
      [] p = "L83"  -> [op |-> "mkdir", dir |-> ca_dir]
      [] p = "L84"  -> [op |-> "create_ca"]
      [] p = "L87"  -> [op |-> "issue", role |-> "lb"]
      [] p = "L88"  -> [op |-> "issue", role |-> "server"]
      [] p = "L89"  -> [op |-> "issue", role |-> "zato_admin"]
      [] p = "L90"  -> [op |-> "issue", role |-> "security_server"]
      [] p = "L93"  -> [op |-> "create_security_server"]
      [] p = "L96"  -> [op |-> "copy",
                        src |-> FormatArg("security_server", "priv_key_name"),
                        dst |-> security_server_dir \o <<"security-server-priv-key.pem">>]
      [] p = "L97"  -> [op |-> "copy",
                        src |-> FormatArg("security_server", "cert_name"),
                        dst |-> security_server_dir \o <<"security-server-cert.pem">>]
      [] p = "L98"  -> [op |-> "copy", src |-> ca_cert,
                        dst |-> security_server_dir \o <<"ca-chain.pem">>]
      [] p = "L101" -> [op |-> "mkdir", dir |-> lb_dir]
      [] p = "L102" -> [op |-> "create_lb"]
      [] p = "L105" -> [op |-> "copy", src |-> FormatArg("lb", "priv_key_name"),
                        dst |-> lb_config \o <<"lba-priv-key.pem">>]
      [] p = "L106" -> [op |-> "copy", src |-> FormatArg("lb", "cert_name"),
                        dst |-> lb_config \o <<"lba-cert.pem">>]
      [] p = "L107" -> [op |-> "copy", src |-> ca_cert,
                        dst |-> lb_config \o <<"ca-chain.pem">>]
      [] p = "L110" -> [op |-> "mkdir", dir |-> server_dir]
      [] p = "L116" -> [op |-> "prepare_directories"]
      [] p = "L118" -> [op |-> "copy", src |-> FormatArg("server", "priv_key_name"),
                        dst |-> server_repo \o <<"zs-priv-key.pem">>]
      [] p = "L119" -> [op |-> "copy", src |-> FormatArg("server", "pub_key_name"),
                        dst |-> server_repo \o <<"zs-pub-key.pem">>]
      [] p = "L120" -> [op |-> "copy", src |-> FormatArg("server", "cert_name"),
                        dst |-> server_repo \o <<"zs-cert.pem">>]
      [] p = "L121" -> [op |-> "copy", src |-> ca_cert,
                        dst |-> server_repo \o <<"ca-chain.pem">>]
      [] p = "L123" -> [op |-> "create_server"]
      [] p = "L126" -> [op |-> "mkdir", dir |-> zato_admin_dir]
      [] p = "L127" -> [op |-> "create_zato_admin"]
      [] p = "L130" -> [op |-> "copy", src |-> FormatArg("zato_admin", "priv_key_name"),
                        dst |-> zato_admin_dir \o <<"zato-admin-priv-key.pem">>]
      [] p = "L131" -> [op |-> "copy", src |-> FormatArg("zato_admin", "cert_name"),
                        dst |-> zato_admin_dir \o <<"zato-admin-cert.pem">>]
      [] p = "L132" -> [op |-> "copy", src |-> ca_cert,
                        dst |-> zato_admin_dir \o <<"ca-chain.pem">>]
      [] p = "L137" -> [op |-> "get_session"]
      [] p = "L142" -> [op |-> "query"]
      [] p = "L150" -> [op |-> "add"]
      [] p = "L160_cluster" -> [op |-> "insert_cluster"]
      [] p = "L160_server"  -> [op |-> "insert_server"]
      [] p = "L160_commit"  -> [op |-> "commit"]
      [] p = "L163" -> [op |-> "summary"]

Op(p) == IF p \in Labels THEN Stmt(p).op ELSE "none"

CopyLabels == {p \in Labels : Stmt(p).op = "copy"}
Destinations == {Stmt(p).dst : p \in CopyLabels}

Paths ==
    RoleDirs \cup {ca_material, lb_config, server_config, server_repo}
    \cup Sources \cup Destinations
    \cup {ConfigFile(d) : d \in RoleDirs \ {ca_dir}}

\* Statements that call out of the process and so can raise for reasons of
\* their own; lines 150-159 only build objects, line 163 on only prints.
External == Labels \ {"L150", "L163"}

Terminal == {"ok", "aborted", "interrupted"}

-----------------------------------------------------------------------------
VARIABLES
    pc,         \* pc[r]: "idle", the label of r's next statement, or a terminal outcome
    target,     \* target[r]: the target directory of run r
    fs,         \* fs[t][p]: what is at path p below target directory t
    store,      \* the committed Cluster and Server rows and the two id sequences
    tx,         \* tx[r]: the rows r's session has inserted and not yet committed
    next_id,    \* next_id[r]: the local of that name
    objs,       \* objs[r]: the names of the Cluster and Server objects built at lines 150-158
    done,       \* done[r]: the statements r has completed, in order
    failed_at,  \* failed_at[r]: the statement that raised, once r is aborted or interrupted
    exit_code   \* exit_code[r]: -1 while r has not ended, then its exit status

vars == <<pc, target, fs, store, tx, next_id, objs, done, failed_at, exit_code>>

NoEntry == [kind |-> "none", data |-> <<>>]
Dir == [kind |-> "dir", data |-> <<>>]
File(data) == [kind |-> "file", data |-> data]

EmptyFs == [p \in Paths |-> NoEntry]
EmptyTx == [clusters |-> {}, servers |-> {}]
NoObjs == [cluster |-> <<>>, server |-> <<>>]

IsDir(t, p) == fs[t][p].kind = "dir"
IsFile(t, p) == fs[t][p].kind = "file"
Exists(t, p) == fs[t][p].kind # "none"

\* The directory a path lies in; the target directory itself always exists.
Parent(p) == SubSeq(p, 1, Len(p) - 1)
ParentIsDir(t, p) == Len(p) = 1 \/ IsDir(t, Parent(p))

-----------------------------------------------------------------------------
(* The store before the run: up to MaxPre Cluster rows, with ids in        *)
(* insertion order, and the Server rows earlier quickstart runs left.      *)

InitNames ==
    {ClusterName(k) : k \in 1..MaxSuffix}
    \cup {<<QSPrefix, "-", "#", "0", "9">>,
          <<QSPrefix, "-", "x">>,
          <<"MyCluster", "-", "#", "7">>}

InitNameSeqs ==
    UNION {{s \in [1..n -> InitNames] : \A i, j \in 1..n : i # j => s[i] # s[j]}
           : n \in 0..MaxPre}

PreClusters(s) == {[id |-> i, name |-> s[i], by |-> "pre"] : i \in 1..Len(s)}

\* The server an earlier run registered with each well-formed quickstart
\* cluster; with orphan, also one whose cluster has since been deleted
\* (cluster_id is nullable: 0 stands for NULL).
PreServers(s, orphan) ==
    LET own == {i \in 1..Len(s) : \E k \in 1..MaxSuffix : s[i] = ClusterName(k)}
        suffix(i) == CHOOSE k \in 1..MaxSuffix : s[i] = ClusterName(k)
        paired == {[id |-> i, name |-> ServerName(suffix(i)), cluster_id |-> i,
                    by |-> "pre"] : i \in own}
    IN IF orphan /\ \A sv \in paired : sv.name # ServerName(1)
       THEN paired \cup {[id |-> Len(s) + 1, name |-> ServerName(1),
                          cluster_id |-> 0, by |-> "pre"]}
       ELSE paired

InitStore(s, orphan) ==
    [clusters |-> PreClusters(s),
     servers |-> PreServers(s, orphan),
     cluster_id_seq |-> Len(s),
     server_id_seq |-> Len(s) + 1]

\* Every run with a target directory of its own.
OwnTarget == [r \in Runs |-> CASE r = "r1" -> "t1" [] r = "r2" -> "t2" [] r = "r3" -> "t3"]

\* No run started yet, the target directories empty (needs_empty_dir).
InitRuns(tg) ==
    /\ pc = [r \in Runs |-> "idle"]
    /\ target = tg
    /\ fs = [t \in Targets |-> EmptyFs]
    /\ tx = [r \in Runs |-> EmptyTx]
    /\ next_id = [r \in Runs |-> 0]
    /\ objs = [r \in Runs |-> NoObjs]
    /\ done = [r \in Runs |-> <<>>]
    /\ failed_at = [r \in Runs |-> "none"]
    /\ exit_code = [r \in Runs |-> -1]

Init ==
    /\ InitRuns(OwnTarget)
    /\ \E s \in InitNameSeqs, orphan \in BOOLEAN : store = InitStore(s, orphan)

-----------------------------------------------------------------------------
(* Control flow.                                                           *)

\* The current statement returns: control moves to the next one.
Advance(r) ==
    /\ pc' = [pc EXCEPT ![r] = NextPc(pc[r])]
    /\ done' = [done EXCEPT ![r] = Append(@, pc[r])]
    /\ exit_code' = [exit_code EXCEPT ![r] = IF NextPc(pc[r]) = "ok" THEN 0 ELSE @]
    /\ UNCHANGED <<target, failed_at>>

FailSkipAndContinue(r) ==
    /\ pc' = [pc EXCEPT ![r] = NextPc(pc[r])]
    /\ failed_at' = [failed_at EXCEPT ![r] = pc[r]]
    /\ UNCHANGED <<target, fs, store, tx, next_id, objs, done, exit_code>>

FailCleanup(r) ==
    /\ pc' = [pc EXCEPT ![r] = "aborted"]
    /\ failed_at' = [failed_at EXCEPT ![r] = pc[r]]
    /\ tx' = [tx EXCEPT ![r] = EmptyTx]
    /\ exit_code' = [exit_code EXCEPT ![r] = 0]
    /\ fs' = [fs EXCEPT ![target[r]] = EmptyFs]
    /\ UNCHANGED <<target, store, next_id, objs, done>>

FailRestart(r) ==
    /\ pc' = [pc EXCEPT ![r] = Order[1]]
    /\ failed_at' = [failed_at EXCEPT ![r] = pc[r]]
    /\ tx' = [tx EXCEPT ![r] = EmptyTx]
    /\ done' = [done EXCEPT ![r] = <<>>]
    /\ UNCHANGED <<target, fs, store, next_id, objs, exit_code>>

\* Lines 172-175: the current statement raises an Exception; the handler
\* prints the diagnostic and execute returns.  The session is never
\* committed, so what it has inserted is lost.
Fail(r) ==
    /\ pc' = [pc EXCEPT ![r] = "aborted"]
    /\ failed_at' = [failed_at EXCEPT ![r] = pc[r]]
    /\ tx' = [tx EXCEPT ![r] = EmptyTx]
    /\ exit_code' = [exit_code EXCEPT ![r] = 0]
    /\ UNCHANGED <<target, fs, store, next_id, objs, done>>

Start(r) ==
    /\ pc[r] = "idle"
    /\ pc' = [pc EXCEPT ![r] = Order[1]]
    /\ UNCHANGED <<target, fs, store, tx, next_id, objs, done, failed_at, exit_code>>

\* An external call fails for a reason of its own (connection refused,
\* permission denied, disk full, ...).
Raise(r) ==
    /\ pc[r] \in External
    /\ Fail(r)

InterruptExitZero(r) ==
    /\ pc[r] \in Labels
    /\ pc' = [pc EXCEPT ![r] = "interrupted"]
    /\ failed_at' = [failed_at EXCEPT ![r] = pc[r]]
    /\ tx' = [tx EXCEPT ![r] = EmptyTx]
    /\ exit_code' = [exit_code EXCEPT ![r] = 0]
    /\ UNCHANGED <<target, fs, store, next_id, objs, done>>

\* Lines 176-178: KeyboardInterrupt, then sys.exit(1).
Interrupt(r) ==
    /\ pc[r] \in Labels
    /\ pc' = [pc EXCEPT ![r] = "interrupted"]
    /\ failed_at' = [failed_at EXCEPT ![r] = pc[r]]
    /\ tx' = [tx EXCEPT ![r] = EmptyTx]
    /\ exit_code' = [exit_code EXCEPT ![r] = 1]
    /\ UNCHANGED <<target, fs, store, next_id, objs, done>>

-----------------------------------------------------------------------------
(* The statements.                                                         *)

GetEngine(r) ==
    /\ Op(pc[r]) = "get_engine"
    /\ Advance(r)
    /\ UNCHANGED <<fs, store, tx, next_id, objs>>

Ping(r) ==
    /\ Op(pc[r]) = "ping"
    /\ Advance(r)
    /\ UNCHANGED <<fs, store, tx, next_id, objs>>

CreateODB(r) ==
    /\ Op(pc[r]) = "create_odb"
    /\ Advance(r)
    /\ UNCHANGED <<fs, store, tx, next_id, objs>>

MkdirExistOk(r) ==
    /\ Op(pc[r]) = "mkdir"
    /\ LET t == target[r]
           d == Stmt(pc[r]).dir
       IN IF IsFile(t, d) \/ ~ParentIsDir(t, d)
          THEN Fail(r)
          ELSE /\ fs' = [fs EXCEPT ![t][d] = Dir]
               /\ Advance(r)
               /\ UNCHANGED <<store, tx, next_id, objs>>

\* os.mkdir(dir): OSError when dir exists or its parent does not.
Mkdir(r) ==
    /\ Op(pc[r]) = "mkdir"
    /\ LET t == target[r]
           d == Stmt(pc[r]).dir
       IN IF Exists(t, d) \/ ~ParentIsDir(t, d)
          THEN Fail(r)
          ELSE /\ fs' = [fs EXCEPT ![t][d] = Dir]
               /\ Advance(r)
               /\ UNCHANGED <<store, tx, next_id, objs>>

\* ca_create_ca.CreateCA(ca_dir).execute(args): the authority's material,
\* of which execute later reads ca-material/ca-cert.pem.
CreateCA(r) ==
    /\ Op(pc[r]) = "create_ca"
    /\ LET t == target[r]
       IN IF ~IsDir(t, ca_dir) \/ Exists(t, ca_material)
          THEN Fail(r)
          ELSE /\ fs' = [fs EXCEPT ![t][ca_material] = Dir,
                                   ![t][ca_cert] = File(ca_cert)]
               /\ Advance(r)
               /\ UNCHANGED <<store, tx, next_id, objs>>

\* ca_create_*.Create*(ca_dir).execute(args): returns format_args naming
\* the role's key and certificate files.
IssueIdentity(r) ==
    /\ Op(pc[r]) = "issue"
    /\ LET t == target[r]
           role == Stmt(pc[r]).role
       IN IF ~IsDir(t, ca_material)
          THEN Fail(r)
          ELSE /\ fs' = [fs EXCEPT ![t] =
                            [p \in Paths |->
                                IF \E k \in ArtifactKeys(role) : p = FormatArg(role, k)
                                THEN File(p)
                                ELSE fs[t][p]]]
               /\ Advance(r)
               /\ UNCHANGED <<store, tx, next_id, objs>>

\* The same call returning although one of the files it names is not there.
IssueIdentityIncomplete(r) ==
    /\ Op(pc[r]) = "issue"
    /\ LET t == target[r]
           role == Stmt(pc[r]).role
       IN /\ IsDir(t, ca_material)
          /\ \E missing \in ArtifactKeys(role) :
                 fs' = [fs EXCEPT ![t] =
                           [p \in Paths |->
                               IF \E k \in ArtifactKeys(role) \ {missing} :
                                      p = FormatArg(role, k)
                               THEN File(p)
                               ELSE fs[t][p]]]
          /\ Advance(r)
          /\ UNCHANGED <<store, tx, next_id, objs>>

\* create_security_server.CreateSecurityServer(security_server_dir).execute(args):
\* execute makes no directory for this role itself.
CreateSecurityServer(r) ==
    /\ Op(pc[r]) = "create_security_server"
    /\ LET t == target[r]
       IN IF Exists(t, security_server_dir)
          THEN Fail(r)
          ELSE /\ fs' = [fs EXCEPT ![t][security_server_dir] = Dir,
                                   ![t][ConfigFile(security_server_dir)] =
                                       File(ConfigFile(security_server_dir))]
               /\ Advance(r)
               /\ UNCHANGED <<store, tx, next_id, objs>>

\* create_lb.CreateLoadBalancer(lb_dir).execute(args)
CreateLoadBalancer(r) ==
    /\ Op(pc[r]) = "create_lb"
    /\ LET t == target[r]
       IN IF ~IsDir(t, lb_dir) \/ Exists(t, lb_config)
          THEN Fail(r)
          ELSE /\ fs' = [fs EXCEPT ![t][lb_config] = Dir,
                                   ![t][ConfigFile(lb_dir)] = File(ConfigFile(lb_dir))]
               /\ Advance(r)
               /\ UNCHANGED <<store, tx, next_id, objs>>

\* cs.prepare_directories(): the nested config/repo subtree of the server.
PrepareDirectories(r) ==
    /\ Op(pc[r]) = "prepare_directories"
    /\ LET t == target[r]
       IN IF ~IsDir(t, server_dir) \/ Exists(t, server_config)
          THEN Fail(r)
          ELSE /\ fs' = [fs EXCEPT ![t][server_config] = Dir,
                                   ![t][server_repo] = Dir]
               /\ Advance(r)
               /\ UNCHANGED <<store, tx, next_id, objs>>

\* cs.execute(args): "expects the pub_key to be already at its place".
CreateServer(r) ==
    /\ Op(pc[r]) = "create_server"
    /\ LET t == target[r]
       IN IF ~IsDir(t, server_repo) \/ ~IsFile(t, Stmt("L119").dst)
          THEN Fail(r)
          ELSE /\ fs' = [fs EXCEPT ![t][ConfigFile(server_dir)] =
                                       File(ConfigFile(server_dir))]
               /\ Advance(r)
               /\ UNCHANGED <<store, tx, next_id, objs>>

\* create_zato_admin.CreateZatoAdmin(zato_admin_dir).execute(args)
CreateZatoAdmin(r) ==
    /\ Op(pc[r]) = "create_zato_admin"
    /\ LET t == target[r]
       IN IF ~IsDir(t, zato_admin_dir)
          THEN Fail(r)
          ELSE /\ fs' = [fs EXCEPT ![t][ConfigFile(zato_admin_dir)] =
                                       File(ConfigFile(zato_admin_dir))]
               /\ Advance(r)
               /\ UNCHANGED <<store, tx, next_id, objs>>

CopyDestinationFirst(r) ==
    /\ Op(pc[r]) = "copy"
    /\ LET t == target[r]
           src == Stmt(pc[r]).src
           dst == Stmt(pc[r]).dst
       IN IF ~ParentIsDir(t, dst)
          THEN Fail(r)
          ELSE IF ~IsFile(t, src)
          THEN /\ fs' = [fs EXCEPT ![t][dst] = File(<<>>)]
               /\ pc' = [pc EXCEPT ![r] = "aborted"]
               /\ failed_at' = [failed_at EXCEPT ![r] = pc[r]]
               /\ tx' = [tx EXCEPT ![r] = EmptyTx]
               /\ exit_code' = [exit_code EXCEPT ![r] = 0]
               /\ UNCHANGED <<target, store, next_id, objs, done>>
          ELSE /\ fs' = [fs EXCEPT ![t][dst] = fs[t][src]]
               /\ Advance(r)
               /\ UNCHANGED <<store, tx, next_id, objs>>

\* shutil.copy2(src, dst): IOError when src is no file or dst's directory
\* does not exist; otherwise dst gets src's contents.
Copy(r) ==
    /\ Op(pc[r]) = "copy"
    /\ LET t == target[r]
           src == Stmt(pc[r]).src
           dst == Stmt(pc[r]).dst
       IN IF ~IsFile(t, src) \/ ~ParentIsDir(t, dst)
          THEN Fail(r)
          ELSE /\ fs' = [fs EXCEPT ![t][dst] = fs[t][src]]
               /\ Advance(r)
               /\ UNCHANGED <<store, tx, next_id, objs>>

-----------------------------------------------------------------------------
(* Registration, lines 134-160.                                            *)

\* An INSERT the session flushes goes to its open transaction, not to the
\* committed rows: nothing is visible before session.commit() at line 160.
SessionInsertAutocommit(db, t, table, row) ==
    [db |-> [db EXCEPT ![table] = @ \cup {row}], tx |-> t]
SessionInsert(db, t, table, row) ==
    [db |-> db, tx |-> [t EXCEPT ![table] = @ \cup {row}]]

\* Lines 136-137: next_id = 1; session = self._get_session(engine)
GetSession(r) ==
    /\ Op(pc[r]) = "get_session"
    /\ next_id' = [next_id EXCEPT ![r] = 1]
    /\ Advance(r)
    /\ UNCHANGED <<fs, store, tx, objs>>

\* Lines 139-148: the query runs when top_id_cluster[0] is evaluated.
Query(r) ==
    /\ Op(pc[r]) = "query"
    /\ LET res == NextId(store.clusters)
       IN IF res.err
          THEN Fail(r)
          ELSE /\ next_id' = [next_id EXCEPT ![r] = res.next_id]
               /\ Advance(r)
               /\ UNCHANGED <<fs, store, tx, objs>>

\* Lines 150-159: the Cluster and Server objects, and session.add(server).
Add(r) ==
    /\ Op(pc[r]) = "add"
    /\ objs' = [objs EXCEPT ![r] = [cluster |-> ClusterName(next_id[r]),
                                    server |-> ServerName(next_id[r])]]
    /\ Advance(r)
    /\ UNCHANGED <<fs, store, tx, next_id>>

\* Line 160, the flush: INSERT of the Cluster, which the Server refers to.
\* Cluster.name is unique; the id comes from cluster_id_seq.
InsertCluster(r) ==
    /\ Op(pc[r]) = "insert_cluster"
    /\ IF \E c \in store.clusters : c.name = objs[r].cluster
       THEN Fail(r)
       ELSE LET row == [id |-> store.cluster_id_seq + 1,
                        name |-> objs[r].cluster, by |-> r]
                res == SessionInsert(store, tx[r], "clusters", row)
            IN /\ store' = [res.db EXCEPT !.cluster_id_seq = @ + 1]
               /\ tx' = [tx EXCEPT ![r] = res.tx]
               /\ Advance(r)
               /\ UNCHANGED <<fs, next_id, objs>>

InsertServerNoCluster(r) ==
    /\ Op(pc[r]) = "insert_server"
    /\ IF \E sv \in store.servers : sv.name = objs[r].server
       THEN Fail(r)
       ELSE LET row == [id |-> store.server_id_seq + 1, name |-> objs[r].server,
                        cluster_id |-> 0, by |-> r]
                res == SessionInsert(store, tx[r], "servers", row)
            IN /\ store' = [res.db EXCEPT !.server_id_seq = @ + 1]
               /\ tx' = [tx EXCEPT ![r] = res.tx]
               /\ Advance(r)
               /\ UNCHANGED <<fs, next_id, objs>>

\* Line 160, the flush: INSERT of the Server with the Cluster's id as its
\* cluster_id.  Server.name is unique.
InsertServer(r) ==
    /\ Op(pc[r]) = "insert_server"
    /\ IF \E sv \in store.servers : sv.name = objs[r].server
       THEN Fail(r)
       ELSE LET cluster == CHOOSE c \in tx[r].clusters \cup store.clusters :
                               c.by = r /\ c.name = objs[r].cluster
                row == [id |-> store.server_id_seq + 1, name |-> objs[r].server,
                        cluster_id |-> cluster.id, by |-> r]
                res == SessionInsert(store, tx[r], "servers", row)
            IN /\ store' = [res.db EXCEPT !.server_id_seq = @ + 1]
               /\ tx' = [tx EXCEPT ![r] = res.tx]
               /\ Advance(r)
               /\ UNCHANGED <<fs, next_id, objs>>

CommitUnchecked(r) ==
    /\ Op(pc[r]) = "commit"
    /\ store' = [store EXCEPT !.clusters = @ \cup tx[r].clusters,
                              !.servers = @ \cup tx[r].servers]
    /\ tx' = [tx EXCEPT ![r] = EmptyTx]
    /\ Advance(r)
    /\ UNCHANGED <<fs, next_id, objs>>

\* Line 160, the COMMIT: the transaction's rows become committed rows,
\* unless a row with the same unique name was committed meanwhile.
Commit(r) ==
    /\ Op(pc[r]) = "commit"
    /\ IF \/ \E c \in tx[r].clusters, d \in store.clusters : c.name = d.name
          \/ \E sv \in tx[r].servers, d \in store.servers : sv.name = d.name
       THEN Fail(r)
       ELSE /\ store' = [store EXCEPT !.clusters = @ \cup tx[r].clusters,
                                      !.servers = @ \cup tx[r].servers]
            /\ tx' = [tx EXCEPT ![r] = EmptyTx]
            /\ Advance(r)
            /\ UNCHANGED <<fs, next_id, objs>>

\* Lines 163-170: the success summary; execute returns.
Summary(r) ==
    /\ Op(pc[r]) = "summary"
    /\ Advance(r)
    /\ UNCHANGED <<fs, store, tx, next_id, objs>>

-----------------------------------------------------------------------------
\* The statements of a run in which nothing outside the process goes wrong.
Statement(r) ==
    \/ Start(r)
    \/ GetEngine(r)
    \/ Ping(r)
    \/ CreateODB(r)
    \/ Mkdir(r)
    \/ CreateCA(r)
    \/ IssueIdentity(r)
    \/ CreateSecurityServer(r)
    \/ CreateLoadBalancer(r)
    \/ PrepareDirectories(r)
    \/ CreateServer(r)
    \/ CreateZatoAdmin(r)
    \/ Copy(r)
    \/ GetSession(r)
    \/ Query(r)
    \/ Add(r)
    \/ InsertCluster(r)
    \/ InsertServer(r)
    \/ Commit(r)
    \/ Summary(r)

Step(r) ==
    \/ Statement(r)
    \/ IssueIdentityIncomplete(r)
    \/ Raise(r)
    \/ Interrupt(r)

\* One run of execute, into the empty target directory t1.
Next == Step("r1")

Spec == Init /\ [][Next]_vars

\* The same run when the process keeps running: execute is one thread of
\* sequential statements, and each call it makes returns or raises, so
\* the run does not stay at a statement for ever.  Failures from outside
\* and interrupts may happen but need not.
\* The stores it starts on: empty, one row (with or without an orphaned
\* server), and two rows whose identifiers and suffixes run in opposite
\* orders, on which the chosen name is taken.
InitLive ==
    /\ InitRuns(OwnTarget)
    /\ \E s \in InitNameSeqs, orphan \in BOOLEAN :
           /\ Len(s) <= 1 \/ s = <<ClusterName(2), ClusterName(1)>>
           /\ store = InitStore(s, orphan)

SpecLive == InitLive /\ [][Next]_vars /\ WF_vars(Statement("r1"))

\* A second run of execute, r2, into the target directory of r1 once r1
\* has ended: main(target_dir) called again with the same directory.
SameTarget == [r \in Runs |-> IF r = "r3" THEN "t3" ELSE "t1"]

InitRerun ==
    /\ InitRuns(SameTarget)
    /\ store = InitStore(<<>>, FALSE)

NextRerun ==
    \/ Step("r1")
    \/ pc["r1"] \in Terminal /\ Step("r2")

SpecRerun == InitRerun /\ [][NextRerun]_vars

\* Runs one after another, each into a target directory of its own, on a
\* store that starts empty; any external call may raise.
RunSeq == <<"r1", "r2", "r3">>
Earlier(r) == {RunSeq[j] : j \in 1..((CHOOSE i \in 1..Len(RunSeq) : RunSeq[i] = r) - 1)}

InitSeq ==
    /\ InitRuns(OwnTarget)
    /\ store = InitStore(<<>>, FALSE)

NextSeq ==
    \E r \in Runs :
        /\ \A q \in Earlier(r) : pc[q] \in Terminal
        /\ (Statement(r) \/ Raise(r))

SpecSeq == InitSeq /\ [][NextSeq]_vars

\* Two runs at the same time, each into a target directory of its own, on
\* one store: their statements interleave in any order.
Concurrent == {"r1", "r2"}

InitConcurrent ==
    /\ InitRuns(OwnTarget)
    /\ \E s \in InitNameSeqs : Len(s) <= 1 /\ store = InitStore(s, FALSE)

NextConcurrent == \E r \in Concurrent : Statement(r) \/ Raise(r)

SpecConcurrent == InitConcurrent /\ [][NextConcurrent]_vars

-----------------------------------------------------------------------------
(* Properties.                                                             *)

ClustersBy(r) == {c \in store.clusters : c.by = r}
ServersBy(r) == {sv \in store.servers : sv.by = r}
NoRowsBy(r) == ClustersBy(r) = {} /\ ServersBy(r) = {} /\ tx[r] = EmptyTx
FsEmpty(t) == \A p \in Paths : ~Exists(t, p)

\* a has completed before the i-th completed statement of r
CompletedBefore(r, a, i) == \E j \in 1..(i - 1) : done[r][j] = a
Completed(r, a) == \E j \in 1..Len(done[r]) : done[r][j] = a
TimesCompleted(r, a) == Cardinality({j \in 1..Len(done[r]) : done[r][j] = a})

\* The names of the committed Cluster rows, in identifier order.
NamesById ==
    [i \in 1..Cardinality(store.clusters) |->
        (CHOOSE c \in store.clusters :
            Cardinality({d \in store.clusters : d.id <= c.id}) = i).name]

\* A run has chosen its cluster name once the objects of lines 150-158
\* exist and nothing has been written yet.
NameChosen(r) == pc[r] = "L160_cluster"

StartsWithPrefix(name) == Len(name) >= 1 /\ name[1] = QSPrefix

IssueLabels == {"L87", "L88", "L89", "L90"}
ServerCopyLabels == {"L118", "L119", "L120", "L121"}
FlushLabels == {"L160_cluster", "L160_server", "L160_commit"}

\* C1: the liveness probe (line 63) completes before every provisioning
\* step, and a run that aborted at the probe has created no directory or
\* file below its target directory and has written no Cluster or Server row.
C1_ProbeFirst ==
    \A r \in Runs :
        /\ \A i \in 1..Len(done[r]) :
               done[r][i] \notin {"L60", "L63"} => CompletedBefore(r, "L63", i)
        /\ (~FsEmpty(target[r]) \/ ~NoRowsBy(r)) => Completed(r, "L63")
        /\ (pc[r] = "aborted" /\ failed_at[r] = "L63") =>
               /\ FsEmpty(target[r])
               /\ NoRowsBy(r)
               /\ done[r] = <<"L60">>

C1_Witness == pc["r1"] = "aborted" /\ failed_at["r1"] = "L63"

\* C2: registration is atomic: in every state the committed rows of a run
\* are either one Cluster and one Server referring to it, or none; a run
\* that fails at either insert or at the commit ends aborted with no row
\* persisted.
C2_Atomic ==
    \A r \in Runs :
        /\ \/ ClustersBy(r) = {} /\ ServersBy(r) = {}
           \/ /\ Cardinality(ClustersBy(r)) = 1
              /\ Cardinality(ServersBy(r)) = 1
              /\ \A c \in ClustersBy(r), sv \in ServersBy(r) : sv.cluster_id = c.id
        /\ (pc[r] \in Terminal /\ failed_at[r] \in FlushLabels) =>
               /\ ClustersBy(r) = {} /\ ServersBy(r) = {}
               /\ pc[r] # "ok"
        /\ pc[r] = "aborted" => ClustersBy(r) = {} /\ ServersBy(r) = {}

C2_Witness ==
    /\ pc["r1"] = "aborted"
    /\ failed_at["r1"] = "L160_server"
    /\ Completed("r1", "L160_cluster")
    /\ \E sv \in store.servers : sv.name = objs["r1"].server

\* C3: the chosen cluster name is not in use, and its suffix is one more
\* than the highest suffix among the clusters matching the quickstart
\* prefix (1 if there are none), whatever the order of their identifiers.
SuffixesInUse ==
    {SuffixKey(c.name) : c \in {d \in store.clusters :
                                    Like(d.name) /\ SuffixKey(d.name) >= 0}}

C3_SmallestAboveHighest ==
    \A r \in Runs :
        NameChosen(r) =>
            /\ \A c \in store.clusters : c.name # objs[r].cluster
            /\ next_id[r] = IF SuffixesInUse = {} THEN 1
                            ELSE 1 + CHOOSE m \in SuffixesInUse :
                                         \A k \in SuffixesInUse : k <= m

\* C4: with exactly the rows P-#1 .. P-#N in the store, in increasing
\* identifier order, the next name is P-#(N+1).
C4_Sequential ==
    \A r \in Runs :
        \A N \in 1..Cardinality(store.clusters) :
            (/\ NameChosen(r)
             /\ Cardinality(store.clusters) = N
             /\ \A i \in 1..N : NamesById[i] = <<QSPrefix, "-", "#">> \o FormatNat(i))
            => /\ next_id[r] = N + 1
               /\ objs[r].cluster = <<QSPrefix, "-", "#">> \o FormatNat(N + 1)

C4_Witness ==
    /\ NameChosen("r1")
    /\ NamesById = <<<<QSPrefix, "-", "#", "1">>, <<QSPrefix, "-", "#", "2">>>>

\* C5: with no cluster whose name starts with the quickstart prefix in the
\* store, whatever else it holds, the next name is the prefix and -#1.
C5_FirstName ==
    \A r \in Runs :
        (NameChosen(r) /\ \A c \in store.clusters : ~StartsWithPrefix(c.name))
        => /\ next_id[r] = 1
           /\ objs[r].cluster = <<QSPrefix, "-", "#", "1">>

C5_Witness ==
    /\ NameChosen("r1")
    /\ store.clusters # {}
    /\ \A c \in store.clusters : ~StartsWithPrefix(c.name)

\* C6: the next name is the suffix of the matching row with the highest
\* identifier, plus one: a lone -#3 gives -#4, and where suffix order and
\* identifier order disagree the identifier order decides.
C6_ByIdentifier ==
    \A r \in Runs :
        NameChosen(r) =>
            /\ \A top \in store.clusters :
                   (/\ Like(top.name)
                    /\ \A d \in store.clusters : Like(d.name) => d.id <= top.id)
                   => objs[r].cluster =
                          <<QSPrefix, "-", "#">> \o FormatInt(SuffixKey(top.name) + 1)
            /\ NamesById = << <<QSPrefix, "-", "#", "3">> >>
                   => objs[r].cluster = <<QSPrefix, "-", "#", "4">>
            /\ NamesById = << <<QSPrefix, "-", "#", "2">>, <<QSPrefix, "-", "#", "1">> >>
                   => objs[r].cluster = <<QSPrefix, "-", "#", "2">>
            /\ NamesById = << <<QSPrefix, "-", "#", "1">>, <<QSPrefix, "-", "#", "0", "9">> >>
                   => objs[r].cluster = <<QSPrefix, "-", "#", "1", "0">>

C6_Witness ==
    /\ NameChosen("r1")
    /\ NamesById = << <<QSPrefix, "-", "#", "2">>, <<QSPrefix, "-", "#", "1">> >>

\* A copy for the server role failed because its source file is absent.
ServerCopyFailed(r) ==
    /\ pc[r] = "aborted"
    /\ failed_at[r] \in ServerCopyLabels
    /\ ~IsFile(target[r], Stmt(failed_at[r]).src)

\* C7, as stated: after a failed copy for the server role no row is written
\* and the zato-admin and security-server directories are on disk.
C7_AdminAndSecurityRemain ==
    \A r \in Runs :
        ServerCopyFailed(r) =>
            /\ NoRowsBy(r)
            /\ IsDir(target[r], zato_admin_dir)
            /\ IsDir(target[r], security_server_dir)

\* C7, amended: after a failed copy for the server role no row is written;
\* the ca, security-server, load-balancer and server directories made by
\* the earlier steps are on disk, and zato-admin, made only after the
\* server role, is not.
C7_EarlierDirsRemain ==
    \A r \in Runs :
        ServerCopyFailed(r) =>
            /\ NoRowsBy(r)
            /\ IsDir(target[r], ca_dir)
            /\ IsDir(target[r], security_server_dir)
            /\ IsDir(target[r], lb_dir)
            /\ IsDir(target[r], server_dir)
            /\ ~Exists(target[r], zato_admin_dir)

C7_Witness == ServerCopyFailed("r1") /\ failed_at["r1"] = "L119"

\* C8: a run without a failing step, into an empty target directory and
\* with no quickstart cluster in the store, succeeds with exactly the five
\* role directories, one new Cluster ZatoQuickstartCluster-#1 and one new
\* Server ZatoQuickstartServer-(cluster-#1) referring to it.
C8_ScenarioA ==
    \A r \in Runs :
        (/\ pc[r] = "ok"
         /\ \A c \in store.clusters : c.by = "pre" => ~StartsWithPrefix(c.name))
        => /\ failed_at[r] = "none"
           /\ {p \in Paths : Len(p) = 1 /\ Exists(target[r], p)} = RoleDirs
           /\ \A d \in RoleDirs : IsDir(target[r], d)
           /\ Cardinality({p \in Paths : Len(p) = 1 /\ IsDir(target[r], p)}) = 5
           /\ \E c \in store.clusters :
                  /\ ClustersBy(r) = {c}
                  /\ c.name = <<QSPrefix, "-", "#", "1">>
                  /\ \E sv \in store.servers :
                         /\ ServersBy(r) = {sv}
                         /\ sv.name = <<QSServerPrefix, "#", "1", ")">>
                         /\ sv.cluster_id = c.id

C8_Witness == pc["r1"] = "ok" /\ store.clusters = ClustersBy("r1")

\* C9: whenever a copy for the server role is about to run or has run,
\* prepare_directories has completed and server/config/repo exists.
C9_PrepareBeforeCopy ==
    \A r \in Runs :
        /\ pc[r] \in ServerCopyLabels =>
               /\ Completed(r, "L116")
               /\ IsDir(target[r], server_repo)
        /\ \A i \in 1..Len(done[r]) :
               done[r][i] \in ServerCopyLabels => CompletedBefore(r, "L116", i)
        /\ \A p \in ServerCopyLabels :
               Exists(target[r], Stmt(p).dst) => IsDir(target[r], server_repo)

C9_Witness ==
    /\ Completed("r1", "L118")
    /\ IsFile(target["r1"], server_repo \o <<"zs-priv-key.pem">>)

\* C10: the ca directory is made and CreateCA run, in that order and once
\* each, before any of the four identity issuances; whenever an issuance
\* is about to run the authority exists.
C10_AuthorityFirst ==
    \A r \in Runs :
        /\ \A i \in 1..Len(done[r]) :
               done[r][i] \in IssueLabels => CompletedBefore(r, "L84", i)
        /\ \A i \in 1..Len(done[r]) :
               done[r][i] = "L84" => (i > 1 /\ done[r][i - 1] = "L83")
        /\ pc[r] \in IssueLabels =>
               /\ IsDir(target[r], ca_dir)
               /\ IsFile(target[r], ca_cert)
        /\ TimesCompleted(r, "L83") <= 1
        /\ TimesCompleted(r, "L84") <= 1
        /\ \A p \in IssueLabels : TimesCompleted(r, p) <= 1

C10_Witness == \A p \in IssueLabels : Completed("r1", p)

\* The statements of the registration, from the query on.
RegistrarLabels ==
    {"L142", "L150", "L160_cluster", "L160_server", "L160_commit", "L163"}

AllMaterialized(r) ==
    /\ \A d \in RoleDirs : IsDir(target[r], d)
    /\ \A p \in CopyLabels : Completed(r, p) /\ IsFile(target[r], Stmt(p).dst)

\* C11: the store is queried and rows are written only once all five role
\* directories exist and every identity file has been copied.
C11_RegistrarLast ==
    \A r \in Runs :
        (\/ pc[r] \in RegistrarLabels
         \/ \E p \in RegistrarLabels : Completed(r, p)
         \/ ~NoRowsBy(r))
        => AllMaterialized(r)

C11_Witness ==
    /\ Completed("r1", "L160_commit")
    /\ ClustersBy("r1") # {}
    /\ ServersBy("r1") # {}

\* The statements before p, in source order.
Before(p) == SubSeq(Order, 1, IndexOf(p) - 1)

\* The paths a completed statement has created.
Produces(p) ==
    CASE Op(p) = "mkdir" -> {Stmt(p).dir}
      [] Op(p) = "copy" -> {Stmt(p).dst}
      [] Op(p) = "create_ca" -> {ca_material, ca_cert}
      [] Op(p) = "create_security_server" ->
             {security_server_dir, ConfigFile(security_server_dir)}
      [] Op(p) = "create_lb" -> {lb_config, ConfigFile(lb_dir)}
      [] Op(p) = "prepare_directories" -> {server_config, server_repo}
      [] Op(p) = "create_server" -> {ConfigFile(server_dir)}
      [] Op(p) = "create_zato_admin" -> {ConfigFile(zato_admin_dir)}
      [] OTHER -> {}

\* Everything the completed statements of r created is on disk.
CreatedPresent(r) ==
    \A i \in 1..Len(done[r]) :
        \A p \in Produces(done[r][i]) : Exists(target[r], p)

\* Nothing of run r changes in this step.
Frozen(r) ==
    /\ pc'[r] = pc[r]
    /\ done'[r] = done[r]
    /\ exit_code'[r] = exit_code[r]
    /\ fs'[target[r]] = fs[target[r]]
    /\ tx'[r] = tx[r]
    /\ ClustersBy(r)' = ClustersBy(r)
    /\ ServersBy(r)' = ServersBy(r)

\* C12: a statement that raises ends the run: the statements completed are
\* exactly those before it, each once, none after it; the summary is not
\* reached; the run has returned (exit status 0) and does nothing more.
C12_AbortsRemainder ==
    /\ [](\A r \in Runs :
            /\ failed_at[r] # "none" => pc[r] \in {"aborted", "interrupted"}
            /\ pc[r] = "aborted" =>
                   /\ failed_at[r] \in Labels
                   /\ done[r] = Before(failed_at[r])
                   /\ ~Completed(r, "L163")
                   /\ exit_code[r] = 0)
    /\ [][\A r \in Runs : pc[r] = "aborted" => Frozen(r)]_vars

C12_Witness ==
    /\ pc["r1"] = "aborted"
    /\ failed_at["r1"] = "L102"
    /\ exit_code["r1"] = 0

\* C13: a failing statement changes nothing on disk: what the earlier
\* statements created is present in the aborted run's target directory,
\* also when the failure is in the registration; only the session's
\* uncommitted rows are dropped.
C13_FilesystemKept ==
    /\ [](\A r \in Runs : pc[r] = "aborted" => CreatedPresent(r))
    /\ [][\A r \in Runs :
            (pc[r] \in Labels /\ pc'[r] = "aborted") =>
                /\ fs' = fs
                /\ store' = store
                /\ tx'[r] = EmptyTx]_vars

C13_Witness ==
    /\ pc["r1"] = "aborted"
    /\ failed_at["r1"] = "L160_commit"
    /\ AllMaterialized("r1")

\* C14: a keyboard interrupt at any statement ends the run at once with
\* exit status 1: the statements completed are exactly those before it,
\* what they created stays on disk, and rows of the run are in the store
\* only if its commit had completed.
C14_Interrupt ==
    /\ [](\A r \in Runs :
            pc[r] = "interrupted" =>
                /\ exit_code[r] = 1
                /\ failed_at[r] \in Labels
                /\ done[r] = Before(failed_at[r])
                /\ CreatedPresent(r)
                /\ (ClustersBy(r) # {} \/ ServersBy(r) # {}) =>
                       Completed(r, "L160_commit"))
    /\ [][\A r \in Runs :
            /\ pc[r] = "interrupted" => Frozen(r)
            /\ (pc[r] \in Labels /\ pc'[r] = "interrupted") =>
                   (fs' = fs /\ store' = store)]_vars

C14_Witness ==
    /\ pc["r1"] = "interrupted"
    /\ failed_at["r1"] = "L160_server"
    /\ IsDir(target["r1"], zato_admin_dir)
    /\ ClustersBy("r1") = {}

\* Run r starts in a target directory where the earlier run q has made ca.
RerunAfter(q, r) ==
    /\ q # r
    /\ target[q] = target[r]
    /\ pc[q] \in Terminal
    /\ Completed(q, "L83")
    /\ pc[r] # "idle"

\* C15: os.mkdir fails on an existing directory: a run into a target
\* directory where an earlier run made ca gets no further than line 83,
\* creates nothing and writes no row.
C15_NotResumable ==
    /\ [](\A q, r \in Runs :
            RerunAfter(q, r) =>
                /\ pc[r] \in {"L60", "L63", "L80", "L83", "aborted", "interrupted"}
                /\ \A i \in 1..Len(done[r]) : done[r][i] \in {"L60", "L63", "L80"}
                /\ failed_at[r] \in {"none", "L60", "L63", "L80", "L83"}
                /\ NoRowsBy(r))
    /\ [][\A q, r \in Runs :
            RerunAfter(q, r) => (fs' = fs /\ store' = store)]_vars

C15_Witness ==
    /\ RerunAfter("r1", "r2")
    /\ pc["r1"] = "aborted"
    /\ pc["r2"] = "aborted"
    /\ failed_at["r2"] = "L83"

\* C16: a completed copy leaves at the destination a file with the
\* contents of the source; a copy that fails for want of its source leaves
\* nothing at the destination.
C16_PureCopy ==
    \A r \in Runs :
        \A p \in CopyLabels :
            /\ Completed(r, p) =>
                   /\ IsFile(target[r], Stmt(p).src)
                   /\ IsFile(target[r], Stmt(p).dst)
                   /\ fs[target[r]][Stmt(p).dst].data = fs[target[r]][Stmt(p).src].data
            /\ (/\ pc[r] = "aborted"
                /\ failed_at[r] = p
                /\ ~IsFile(target[r], Stmt(p).src))
               => ~Exists(target[r], Stmt(p).dst)

C16_Witness ==
    /\ Completed("r1", "L96")
    /\ pc["r1"] = "aborted"
    /\ failed_at["r1"] = "L97"
    /\ ~IsFile(target["r1"], Stmt("L97").src)

\* Per role: the copies of its identity files, the statement that makes its
\* directory and the statement that installs its configuration.
RoleCopies(role) ==
    CASE role = "security_server" -> {"L96", "L97", "L98"}
      [] role = "lb" -> {"L105", "L106", "L107"}
      [] role = "server" -> {"L118", "L119", "L120", "L121"}
      [] role = "zato_admin" -> {"L130", "L131", "L132"}

RoleMkdir(role) ==
    CASE role = "security_server" -> "L93"
      [] role = "lb" -> "L101"
      [] role = "server" -> "L110"
      [] role = "zato_admin" -> "L126"

RoleInstall(role) ==
    CASE role = "security_server" -> "L93"
      [] role = "lb" -> "L102"
      [] role = "server" -> "L123"
      [] role = "zato_admin" -> "L127"

RoleDir(role) ==
    CASE role = "security_server" -> security_server_dir
      [] role = "lb" -> lb_dir
      [] role = "server" -> server_dir
      [] role = "zato_admin" -> zato_admin_dir

CopyAtHand(r, role) == \E p \in RoleCopies(role) : pc[r] = p \/ Completed(r, p)

\* C17, as stated: a role's identity files are copied only once its
\* directory is made and its configuration installed.
C17_ConfiguredBeforeCopy ==
    \A r \in Runs, role \in IssueRoles :
        CopyAtHand(r, role) =>
            /\ Completed(r, RoleMkdir(role))
            /\ Completed(r, RoleInstall(role))
            /\ IsDir(target[r], RoleDir(role))

\* C17, amended: that holds of the security server, the load-balancer and
\* the admin console; the server's files are copied once its directory is
\* made and prepare_directories has run, and its configuration is
\* installed (cs.execute, line 123) only after all four copies.
C17_MaterializedBeforeCopy ==
    \A r \in Runs, role \in IssueRoles :
        /\ CopyAtHand(r, role) =>
               /\ Completed(r, RoleMkdir(role))
               /\ IsDir(target[r], RoleDir(role))
               /\ role # "server" =>
                      /\ Completed(r, RoleInstall(role))
                      /\ IsFile(target[r], ConfigFile(RoleDir(role)))
               /\ role = "server" => Completed(r, "L116")
        /\ (pc[r] \in RoleCopies("server")) =>
               /\ ~Completed(r, "L123")
               /\ ~Exists(target[r], ConfigFile(server_dir))
        /\ Completed(r, "L123") => \A p \in RoleCopies("server") : Completed(r, p)

C17_Witness ==
    /\ Completed("r1", "L123")
    /\ IsFile(target["r1"], ConfigFile(server_dir))
    /\ \A p \in RoleCopies("server") : Completed("r1", p)

\* The runs whose commit has completed.
Committed == {r \in Runs : Completed(r, "L160_commit")}

\* C18: after k successful runs on an initially empty store it holds
\* exactly the clusters ZatoQuickstartCluster-#1 .. -#k, in that order of
\* identifiers, and exactly k servers, the i-th named
\* ZatoQuickstartServer-(cluster-#i) and referring to the i-th cluster.
C18_SuccessiveRuns ==
    LET k == Cardinality(Committed)
    IN /\ Cardinality(store.clusters) = k
       /\ Cardinality(store.servers) = k
       /\ \A i \in 1..k :
              \E c \in store.clusters, sv \in store.servers :
                  /\ c.name = <<QSPrefix, "-", "#">> \o FormatNat(i)
                  /\ Cardinality({d \in store.clusters : d.id <= c.id}) = i
                  /\ sv.name = <<QSServerPrefix, "#">> \o FormatNat(i) \o <<")">>
                  /\ sv.cluster_id = c.id
       /\ \A c, d \in store.clusters : c.name = d.name => c = d

C18_Witness == \A r \in Runs : pc[r] = "ok"

\* C19: two interleaved runs can choose the same cluster name; the store
\* never holds two clusters of one name, at most one of two such runs has
\* rows in it, and a run that failed in the flush or the commit has none
\* while everything it provisioned is on disk.
C19_UniqueUnderRace ==
    /\ \A c, d \in store.clusters : c.name = d.name => c = d
    /\ \A q, r \in Runs :
           (q # r /\ objs[q].cluster # <<>> /\ objs[q].cluster = objs[r].cluster)
           => (ClustersBy(q) = {} \/ ClustersBy(r) = {})
    /\ \A r \in Runs :
           (pc[r] = "aborted" /\ failed_at[r] \in FlushLabels)
           => /\ ClustersBy(r) = {}
              /\ ServersBy(r) = {}
              /\ AllMaterialized(r)

C19_Witness ==
    /\ objs["r1"].cluster # <<>>
    /\ objs["r1"].cluster = objs["r2"].cluster
    /\ pc["r1"] = "ok"
    /\ ClustersBy("r1") # {}
    /\ pc["r2"] = "aborted"
    /\ failed_at["r2"] = "L160_commit"
    /\ Completed("r2", "L160_server")
    /\ AllMaterialized("r2")

\* The number after the '#' of a server name, -1 if there is none.
ServerSuffix(name) ==
    LET parts == Split(name, "#")
    IN IF Len(parts) = 2 /\ Len(parts[2]) >= 2 /\ parts[2][Len(parts[2])] = ")"
          /\ ParseInt(SubSeq(parts[2], 1, Len(parts[2]) - 1)).ok
       THEN ParseInt(SubSeq(parts[2], 1, Len(parts[2]) - 1)).val
       ELSE -1

ClusterOf(sv) == {c \in store.clusters : c.id = sv.cluster_id}
ServersOf(c) == {sv \in store.servers : sv.cluster_id = c.id}

\* C20: every Server row a run wrote refers to exactly one Cluster row of
\* the store, the one the same run wrote, whose name carries the same
\* number; every Cluster row a run wrote has exactly one Server.
C20_ServerBelongsToItsCluster ==
    /\ \A sv \in store.servers :
           sv.by \in Runs =>
               /\ Cardinality(ClusterOf(sv)) = 1
               /\ \A c \in ClusterOf(sv) :
                      /\ c.by = sv.by
                      /\ SuffixKey(c.name) >= 1
                      /\ SuffixKey(c.name) = ServerSuffix(sv.name)
    /\ \A c \in store.clusters :
           c.by \in Runs =>
               /\ Cardinality(ServersOf(c)) = 1
               /\ \A sv \in ServersOf(c) : sv.by = c.by

C20_Witness ==
    /\ pc["r1"] = "ok"
    /\ ServersBy("r1") # {}
    /\ Cardinality(store.clusters) >= 2
    /\ \E sv \in store.servers : sv.by = "pre" /\ sv.cluster_id = 0

\* C21: a run that has begun ends, as a success, an abort or an interrupt;
\* having ended it stays as it ended; and it ends as a success only with
\* every statement from the probe to the commit and the summary completed,
\* in order, and none failed.
C21_Terminates ==
    /\ \A r \in Runs : (pc[r] \in Labels) ~> (pc[r] \in Terminal)
    /\ [][\A r \in Runs : pc[r] \in Terminal => pc'[r] = pc[r]]_vars
    /\ [](\A r \in Runs :
            /\ pc[r] = "ok" =>
                   /\ done[r] = Order
                   /\ failed_at[r] = "none"
                   /\ exit_code[r] = 0
            /\ pc[r] \in {"aborted", "interrupted"} =>
                   /\ failed_at[r] \in Labels
                   /\ Len(done[r]) < Len(Order))

C21_Witness ==
    /\ pc["r1"] = "ok"
    /\ Completed("r1", "L63")
    /\ Completed("r1", "L160_commit")
    /\ failed_at["r1"] = "none"

====
